---- MODULE Spec2Model ----
(***************************************************************************)
(* Model of tools/check_silent_exceptions.py: the SilentExceptionVisitor   *)
(* over a syntax tree, analyze_file / analyze_directory, the aggregation    *)
(* helpers and the output modes and exit status of main.                    *)
(*                                                                          *)
(* A syntax tree is a sequence of nodes in source (pre-)order; node 1 is    *)
(* the Module. Each node records its kind, its parent, and a tag: the       *)
(* declared type of an ExceptHandler, or the callee of a call statement.    *)
(* A node's line number is its index, its column its nesting depth.         *)
(* File paths are numbered by their lexicographic rank.                     *)
(*                                                                          *)
(* SpecVisitor runs one traversal, a visit per step, over every tree of     *)
(* the bounded families below. Spec runs main over a missing path, a single *)
(* file or a directory whose files rglob delivers in any order. SpecLarge   *)
(* is Spec over files with enough handlers for the issue count to reach     *)
(* the width of the process exit status.                                    *)
(***************************************************************************)
EXTENDS Integers, Sequences, FiniteSets, TLC

VARIABLES
    pc,          \* position of main / of the traversal
    args,        \* parsed command line and what the root path is
    fs,          \* path -> content of the candidate files under the root
    remaining,   \* paths rglob has not delivered yet
    issues,      \* main's `issues` / analyze_directory's all_issues
    analysed,    \* paths analyze_file was called on, in call order
    stderr,      \* diagnostics
    stdout,      \* what the chosen output mode printed
    exit_status, \* status the process ends with
    tree,        \* the tree under traversal (visitor specification)
    visitor,     \* SilentExceptionVisitor state during a traversal
    snippet      \* frame of a call of _get_code_snippet (snippet specification)

vars == <<pc, args, fs, remaining, issues, analysed, stderr, stdout,
          exit_status, tree, visitor, snippet>>

-----------------------------------------------------------------------------
(* Bounds *)

\* statements in the body of a handler drawn from the full palette
MaxBody == 1
\* nodes of a tree (Module included) of arbitrary shape, reduced palette
MaxDeepNodes == 5
\* candidate files under the root directory
MaxFiles == 2

\* longest source file of the snippet specification, in lines
MaxLines == 7

-----------------------------------------------------------------------------
(* Syntax trees *)

NoTag == [form |-> "None", id |-> ""]

\* declared types of a handler: none, a Name, an Attribute (e.g. builtins.Exception)
HandlerTypes ==
    { NoTag,
      [form |-> "Name", id |-> "Exception"],
      [form |-> "Name", id |-> "BaseException"],
      [form |-> "Name", id |-> "ValueError"],
      [form |-> "Attribute", id |-> "Exception"] }

LogMethods == {"debug", "info", "warning", "error", "critical", "exception"}

\* callees of a call statement: receiver.method(...) or name(...)
Callees ==
    [form : {"Attribute"}, id : LogMethods \cup {"print", "send"}]
        \cup [form : {"Name"}, id : {"print", "error"}]

\* a node of an ast: col_offset is the column its first token stands at
Node(kind, parent, tag) ==
    [kind |-> kind, parent |-> parent, tag |-> tag, col_offset |-> 0]

\* the node kinds that hold statements
Blocks == {"Module", "Try", "ExceptHandler", "FunctionDef", "If"}

\* statements without a body of their own
Leaves ==
    { Node(k, 0, NoTag) : k \in {"Pass", "Raise", "Return", "Assign"} }
        \cup { Node("Call", 0, c) : c \in Callees }

\* the palette of the trees of arbitrary shape
DeepPalette ==
    [ handlers |-> { NoTag, [form |-> "Name", id |-> "Exception"],
                     [form |-> "Name", id |-> "ValueError"] },
      callees  |-> { [form |-> "Attribute", id |-> "error"] },
      plain    |-> {"Pass", "Assign"},
      blocks   |-> {"Try", "FunctionDef"} ]

RECURSIVE IsAncestorOrSelf(_, _, _)
IsAncestorOrSelf(t, a, n) ==
    IF n = a THEN TRUE
    ELSE IF n <= a THEN FALSE
    ELSE IsAncestorOrSelf(t, a, t[n].parent)

\* the children of node n, in source order
Children(t, n) ==
    LET IsChild(i) == t[i].parent = n
    IN SelectSeq([i \in 1..Len(t) |-> i], IsChild)

\* the indentations, in characters per block, of the sources analysed
StandardIndent == 4

IndentWidths == {2, StandardIndent}

\* the column of node n in a source indented by width per block: a top-level
\* statement stands at 0, `except` under its `try`, any other statement one
\* indentation to the right of the statement that holds it
RECURSIVE ColumnOf(_, _, _)
ColumnOf(t, n, width) ==
    IF n = 1 \/ t[n].parent = 1 THEN 0
    ELSE IF t[n].kind = "ExceptHandler" THEN ColumnOf(t, t[n].parent, width)
    ELSE ColumnOf(t, t[n].parent, width) + width

\* the tree with the columns ast.parse gives its nodes
Indented(t, width) ==
    [n \in 1..Len(t) |-> [t[n] EXCEPT !.col_offset = ColumnOf(t, n, width)]]

\* the nodes a new last node may hang under: the last node and its ancestors
OpenBlocks(t) ==
    { a \in 1..Len(t) : IsAncestorOrSelf(t, a, Len(t)) /\ t[a].kind \in Blocks }

\* a statement of orelse or finalbody stands under the Try p: its handlers
\* are complete
HandlersClosed(t, p) ==
    \E i, j \in 1..Len(t) :
        /\ i < j
        /\ t[i].parent = p /\ t[i].kind = "ExceptHandler"
        /\ t[j].parent = p /\ t[j].kind # "ExceptHandler"

\* the nodes that may be appended under parent p: under a Try the try
\* statements of its body, then its handlers, then the try statements of
\* orelse and finalbody; elsewhere any statement
NodesUnder(t, p, pal) ==
    IF t[p].kind = "Try"
    THEN (IF HandlersClosed(t, p) THEN {}
          ELSE { Node("ExceptHandler", p, ty) : ty \in pal.handlers })
             \cup { Node("Try", p, NoTag) }
    ELSE { Node(k, p, NoTag) : k \in pal.plain \cup pal.blocks }
             \cup { Node("Call", p, c) : c \in pal.callees }

\* the trees of n nodes that hold one top-level try statement
RECURSIVE TreesOfSize(_, _)
TreesOfSize(n, pal) ==
    IF n = 2 THEN { <<Node("Module", 0, NoTag), Node("Try", 1, NoTag)>> }
    ELSE UNION { { Append(t, nd) :
                     nd \in UNION { NodesUnder(t, p, pal) : p \in OpenBlocks(t) \ {1} } }
                 : t \in TreesOfSize(n - 1, pal) }

TreesUpTo(n, pal) == UNION { TreesOfSize(k, pal) : k \in 2..n }

\* try: ... except <ty>: <body>, for every declared type and every body of
\* at most MaxBody statements
HandlerTrees ==
    { <<Node("Module", 0, NoTag), Node("Try", 1, NoTag), Node("ExceptHandler", 2, ty)>>
          \o [i \in 1..k |-> [body[i] EXCEPT !.parent = 3]]
      : <<ty, k, body>> \in
          UNION { { <<ty, k, body>> : ty \in HandlerTypes, body \in [1..k -> Leaves] }
                  : k \in 0..MaxBody } }

\* the statements of the reduced palette that have no body
DeepLeaves ==
    { Node(k, 0, NoTag) : k \in DeepPalette.plain }
        \cup { Node("Call", 0, c) : c \in DeepPalette.callees }

\* a handler nested in the body of another handler:
\*   try: ... except <outer>: [<pre>]; try: ... except <inner>: <body>
NestedTrees ==
    { <<Node("Module", 0, NoTag), Node("Try", 1, NoTag),
        Node("ExceptHandler", 2, x.outer)>>
          \o [i \in 1..Len(x.pre) |-> [x.pre[i] EXCEPT !.parent = 3]]
          \o <<Node("Try", 3, NoTag), Node("ExceptHandler", 4 + Len(x.pre), x.inner)>>
          \o [i \in 1..Len(x.body) |-> [x.body[i] EXCEPT !.parent = 5 + Len(x.pre)]]
      : x \in UNION { [ outer : HandlerTypes, inner : HandlerTypes,
                        pre : { <<>> } \cup { <<l>> : l \in DeepLeaves },
                        body : [1..k -> DeepLeaves] ]
                      : k \in 0..MaxBody } }

Trees ==
    { Indented(t, width) :
        t \in HandlerTrees \cup NestedTrees \cup TreesUpTo(MaxDeepNodes, DeepPalette),
        width \in IndentWidths }

-----------------------------------------------------------------------------
(* SilentExceptionVisitor *)

\* the path of the file a lone traversal runs on
VisitorPath == 1

SilentExceptionIssue(file_path, line_number, column, issue_type, description) ==
    [ file_path |-> file_path, line_number |-> line_number, column |-> column,
      issue_type |-> issue_type, description |-> description ]

\* __init__: no issues; the traversal starts at the root (visitor.visit(tree))
NewVisitor == [ stack |-> <<1>>, issues |-> <<>>, visits |-> <<>> ]

\* variant: a body holding nothing but pass statements counts as empty
_is_empty_handler_NoRealStatement(t, n) ==
    \A i \in 1..Len(Children(t, n)) : t[Children(t, n)[i]].kind = "Pass"

_is_empty_handler(t, n) == Len(Children(t, n)) = 0

_is_pass_only_handler(t, n) ==
    /\ Len(Children(t, n)) = 1
    /\ t[Children(t, n)[1]].kind = "Pass"

\* ast.walk(node): the node and all its descendants
Walk(t, n) == { j \in n..Len(t) : IsAncestorOrSelf(t, n, j) }

IsSignalNode(nd) ==
    \/ nd.kind = "Call" /\ nd.tag.form = "Attribute" /\ nd.tag.id \in LogMethods
    \/ nd.kind = "Call" /\ nd.tag.form = "Name" /\ nd.tag.id = "print"
    \/ nd.kind \in {"Raise", "Return"}

\* variant: only the statements directly in the body are searched
_has_logging_or_reraise_BodyOnly(t, n) ==
    \E i \in 1..Len(Children(t, n)) : IsSignalNode(t[Children(t, n)[i]])

\* variant: the search starts at the enclosing handler when there is one
_has_logging_or_reraise_FromOuter(t, n) ==
    LET outer == { a \in 1..n : t[a].kind = "ExceptHandler" /\ IsAncestorOrSelf(t, a, n) }
        top == CHOOSE a \in outer : \A b \in outer : a <= b
    IN \E j \in Walk(t, top) : IsSignalNode(t[j])

_has_logging_or_reraise(t, n) ==
    \E j \in Walk(t, n) :
        \/ /\ t[j].kind = "Call"
           /\ t[j].tag.form = "Attribute"
           /\ t[j].tag.id \in LogMethods
        \/ /\ t[j].kind = "Call"
           /\ t[j].tag.form = "Name"
           /\ t[j].tag.id = "print"
        \/ t[j].kind = "Raise"
        \/ t[j].kind = "Return"

_is_silent_handler(t, n) ==
    \/ _is_empty_handler(t, n)
    \/ _is_pass_only_handler(t, n)
    \/ ~ _has_logging_or_reraise(t, n)

BroadDescription(id) ==
    IF id = "Exception" THEN "Broad 'Exception' catch with silent handling"
    ELSE "Broad 'BaseException' catch with silent handling"

\* NodeVisitor.generic_visit: visit the children, in order, before anything
\* that was waiting
generic_visit(v, t, n) ==
    [v EXCEPT !.stack = Children(t, n) \o Tail(v.stack)]

\* variant: the body checks are skipped once a type check has reported
HandlerIssues_ShortCircuit(t, n, path) ==
    LET line_num == n
        col == t[n].col_offset
    IN IF t[n].tag.form = "None"
       THEN << SilentExceptionIssue(path, line_num, col, "bare_except",
                   "Bare 'except:' clause catches all exceptions") >>
       ELSE IF /\ t[n].tag.form = "Name"
               /\ t[n].tag.id \in {"Exception", "BaseException"}
               /\ _is_silent_handler(t, n)
            THEN << SilentExceptionIssue(path, line_num, col, "broad_exception",
                        BroadDescription(t[n].tag.id)) >>
            ELSE IF _is_empty_handler(t, n)
                 THEN << SilentExceptionIssue(path, line_num, col, "empty_except",
                             "Empty except block - exceptions are silently ignored") >>
                 ELSE IF _is_pass_only_handler(t, n)
                      THEN << SilentExceptionIssue(path, line_num, col, "pass_only",
                                  "Exception handler only contains 'pass' statement") >>
                      ELSE <<>>

\* the issues visit_ExceptHandler appends for handler n of the file at path
\* variant: the body issue is reported before the clause issue
HandlerIssues_BodyFirst(t, n, path) ==
    LET line_num == n
        col == t[n].col_offset
        first ==
            IF t[n].tag.form = "None"
            THEN << SilentExceptionIssue(path, line_num, col, "bare_except",
                        "Bare 'except:' clause catches all exceptions") >>
            ELSE IF /\ t[n].tag.form = "Name"
                    /\ t[n].tag.id \in {"Exception", "BaseException"}
                    /\ _is_silent_handler(t, n)
                 THEN << SilentExceptionIssue(path, line_num, col, "broad_exception",
                             BroadDescription(t[n].tag.id)) >>
                 ELSE <<>>
        second ==
            IF _is_empty_handler(t, n)
            THEN << SilentExceptionIssue(path, line_num, col, "empty_except",
                        "Empty except block - exceptions are silently ignored") >>
            ELSE IF _is_pass_only_handler(t, n)
                 THEN << SilentExceptionIssue(path, line_num, col, "pass_only",
                             "Exception handler only contains 'pass' statement") >>
                 ELSE <<>>
    IN second \o first

HandlerIssues(t, n, path) ==
    LET line_num == n
        col == t[n].col_offset
        first ==
            IF t[n].tag.form = "None"
            THEN << SilentExceptionIssue(path, line_num, col, "bare_except",
                        "Bare 'except:' clause catches all exceptions") >>
            ELSE IF /\ t[n].tag.form = "Name"
                    /\ t[n].tag.id \in {"Exception", "BaseException"}
                    /\ _is_silent_handler(t, n)
                 THEN << SilentExceptionIssue(path, line_num, col, "broad_exception",
                             BroadDescription(t[n].tag.id)) >>
                 ELSE <<>>
        second ==
            IF _is_empty_handler(t, n)
            THEN << SilentExceptionIssue(path, line_num, col, "empty_except",
                        "Empty except block - exceptions are silently ignored") >>
            ELSE IF _is_pass_only_handler(t, n)
                 THEN << SilentExceptionIssue(path, line_num, col, "pass_only",
                             "Exception handler only contains 'pass' statement") >>
                 ELSE <<>>
    IN first \o second

\* variant: the handler's own subtree is not descended into
visit_ExceptHandler_NoDescend(v, t, n, path) ==
    [v EXCEPT !.issues = @ \o HandlerIssues(t, n, path),
              !.visits = Append(@, n),
              !.stack = Tail(@)]

visit_ExceptHandler(v, t, n, path) ==
    generic_visit([v EXCEPT !.issues = @ \o HandlerIssues(t, n, path),
                            !.visits = Append(@, n)],
                  t, n)

\* NodeVisitor.visit: dispatch on the class of the node on top
visit(v, t, path) ==
    LET n == Head(v.stack)
    IN IF t[n].kind = "ExceptHandler" THEN visit_ExceptHandler(v, t, n, path)
       ELSE generic_visit(v, t, n)

\* the visitor after at most k more visits
RECURSIVE TraverseSteps(_, _, _, _)
TraverseSteps(v, t, path, k) ==
    IF k = 0 \/ v.stack = <<>> THEN v
    ELSE IF k = 1 THEN visit(v, t, path)
    ELSE TraverseSteps(TraverseSteps(v, t, path, k \div 2), t, path, k - k \div 2)

\* visitor.visit(tree) run to completion
RECURSIVE Traverse(_, _, _)
Traverse(v, t, path) ==
    IF v.stack = <<>> THEN v
    ELSE Traverse(TraverseSteps(v, t, path, Len(t)), t, path)

-----------------------------------------------------------------------------
(* _get_code_snippet.  A string is a sequence of characters, a character
   being a one-character string or, for one that cannot be typed, the name
   of its code point.  source_lines is what str.splitlines() returned, so no
   line holds a line boundary. *)

ContextLines == 2

Max(a, b) == IF a >= b THEN a ELSE b

Min(a, b) == IF a <= b THEN a ELSE b

\* the line boundaries of str.splitlines()
LineBoundaries ==
    { "\n", "U+000B", "U+000C", "U+000D", "U+001C", "U+001D", "U+001E",
      "U+0085", "U+2028", "U+2029" }

\* the characters str.isspace() holds for, which str.rstrip() removes
Whitespace ==
    LineBoundaries
        \cup { "\t", "U+001F", " ", "U+00A0", "U+1680", "U+2000", "U+2001",
               "U+2002", "U+2003", "U+2004", "U+2005", "U+2006", "U+2007",
               "U+2008", "U+2009", "U+200A", "U+202F", "U+205F", "U+3000" }

LineTexts == { <<"x">>, <<" ", "y", " ", "U+00A0">>, <<"U+001F", " ">> }

SourceFiles == UNION { [1..n -> LineTexts] : n \in 1..MaxLines }

\* str.rstrip()
RECURSIVE rstrip(_)
rstrip(s) ==
    IF s = <<>> THEN s
    ELSE IF s[Len(s)] \in Whitespace THEN rstrip(SubSeq(s, 1, Len(s) - 1))
    ELSE s

DigitChars == <<"0", "1", "2", "3", "4", "5", "6", "7", "8", "9">>

RECURSIVE Decimal(_)
Decimal(n) ==
    IF n < 10 THEN << DigitChars[n + 1] >>
    ELSE Decimal(n \div 10) \o << DigitChars[(n % 10) + 1] >>

\* the format specification 3d: right-aligned in a field of at least three
Format3d(n) ==
    LET d == Decimal(n)
    IN IF Len(d) >= 3 THEN d
       ELSE IF Len(d) = 2 THEN <<" ">> \o d
       ELSE <<" ", " ">> \o d

\* start = max(0, line_num - context_lines - 1)
\* variant: the window starts one line late
snippet_start_OneLate(line_num, context_lines) ==
    Max(0, line_num - context_lines)

snippet_start(line_num, context_lines) ==
    Max(0, line_num - context_lines - 1)

\* end = min(len(self.source_lines), line_num + context_lines)
snippet_end(source_lines, line_num, context_lines) ==
    Min(Len(source_lines), line_num + context_lines)

\* marker = ">>> " if i == line_num - 1 else "    "
snippet_marker(i, line_num) ==
    IF i = line_num - 1 THEN <<">", ">", ">", " ">> ELSE <<" ", " ", " ", " ">>

\* f"{marker}{i+1:3d}: {self.source_lines[i].rstrip()}", i counted from 0
snippet_line(source_lines, line_num, i) ==
    snippet_marker(i, line_num) \o Format3d(i + 1) \o <<":", " ">>
        \o rstrip(source_lines[i + 1])

\* "\n".join(lines)
RECURSIVE join_lines(_)
join_lines(lines) ==
    IF lines = <<>> THEN <<>>
    ELSE IF Len(lines) = 1 THEN lines[1]
    ELSE lines[1] \o <<"\n">> \o join_lines(Tail(lines))

\* no call of _get_code_snippet in progress
NoSnippet == [ source_lines |-> <<>>, line_num |-> 0, i |-> 0, end |-> 0,
               lines |-> <<>>, result |-> <<>> ]

-----------------------------------------------------------------------------
(* A lone traversal, one visit per step *)

NoArgs == [ exists |-> TRUE, is_file |-> TRUE, files_only |-> FALSE,
            parallel_fix |-> FALSE, json |-> FALSE ]

InitVisitor ==
    /\ tree \in Trees
    /\ visitor = NewVisitor
    /\ snippet = NoSnippet
    /\ pc = "visit"
    /\ args = NoArgs
    /\ fs = <<>>
    /\ remaining = {}
    /\ issues = <<>>
    /\ analysed = <<>>
    /\ stderr = <<>>
    /\ stdout = <<>>
    /\ exit_status = -1

VisitExceptHandler ==
    /\ pc = "visit"
    /\ visitor.stack # <<>>
    /\ tree[Head(visitor.stack)].kind = "ExceptHandler"
    /\ visitor' = visit(visitor, tree, VisitorPath)
    /\ UNCHANGED <<pc, args, fs, remaining, issues, analysed, stderr, stdout,
                   exit_status, tree, snippet>>

GenericVisit ==
    /\ pc = "visit"
    /\ visitor.stack # <<>>
    /\ tree[Head(visitor.stack)].kind # "ExceptHandler"
    /\ visitor' = visit(visitor, tree, VisitorPath)
    /\ UNCHANGED <<pc, args, fs, remaining, issues, analysed, stderr, stdout,
                   exit_status, tree, snippet>>

\* analyze_file's `return visitor.issues`
ReturnIssues ==
    /\ pc = "visit"
    /\ visitor.stack = <<>>
    /\ issues' = visitor.issues
    /\ pc' = "visited"
    /\ UNCHANGED <<args, fs, remaining, analysed, stderr, stdout, exit_status,
                   tree, visitor, snippet>>

NextVisitor == VisitExceptHandler \/ GenericVisit \/ ReturnIssues

SpecVisitor == InitVisitor /\ [][NextVisitor]_vars

-----------------------------------------------------------------------------
(* A lone call of _get_code_snippet(line_num), one loop turn per step *)

InitSnippet ==
    /\ pc = "snippet_call"
    /\ \E source_lines \in SourceFiles : \E line_num \in 1..Len(source_lines) :
         snippet = [NoSnippet EXCEPT !.source_lines = source_lines,
                                     !.line_num = line_num]
    /\ args = NoArgs
    /\ fs = <<>>
    /\ remaining = {}
    /\ issues = <<>>
    /\ analysed = <<>>
    /\ stderr = <<>>
    /\ stdout = <<>>
    /\ exit_status = -1
    /\ tree = <<>>
    /\ visitor = NewVisitor

\* start, end and the empty list
SnippetCall ==
    /\ pc = "snippet_call"
    /\ snippet' = [snippet EXCEPT
                     !.i = snippet_start(snippet.line_num, ContextLines),
                     !.end = snippet_end(snippet.source_lines, snippet.line_num,
                                         ContextLines),
                     !.lines = <<>>]
    /\ pc' = "snippet_loop"
    /\ UNCHANGED <<args, fs, remaining, issues, analysed, stderr, stdout,
                   exit_status, tree, visitor>>

\* one turn of `for i in range(start, end)`; reading source_lines[i] outside
\* the list raises IndexError
SnippetLoop ==
    /\ pc = "snippet_loop"
    /\ snippet.i < snippet.end
    /\ IF snippet.i + 1 \in DOMAIN snippet.source_lines
       THEN /\ snippet' = [snippet EXCEPT
                             !.lines = Append(@, snippet_line(snippet.source_lines,
                                                              snippet.line_num,
                                                              snippet.i)),
                             !.i = @ + 1]
            /\ pc' = "snippet_loop"
       ELSE /\ pc' = "snippet_index_error"
            /\ UNCHANGED snippet
    /\ UNCHANGED <<args, fs, remaining, issues, analysed, stderr, stdout,
                   exit_status, tree, visitor>>

\* return "\n".join(lines)
SnippetReturn ==
    /\ pc = "snippet_loop"
    /\ snippet.i >= snippet.end
    /\ snippet' = [snippet EXCEPT !.result = join_lines(snippet.lines)]
    /\ pc' = "snippet_returned"
    /\ UNCHANGED <<args, fs, remaining, issues, analysed, stderr, stdout,
                   exit_status, tree, visitor>>

NextSnippet == SnippetCall \/ SnippetLoop \/ SnippetReturn

SpecSnippet == InitSnippet /\ [][NextSnippet]_vars

-----------------------------------------------------------------------------
(* Files *)

\* the tree of `try: ... except <ty>: <body>`
HandlerTree(ty, body) ==
    Indented(
        <<Node("Module", 0, NoTag), Node("Try", 1, NoTag), Node("ExceptHandler", 2, ty)>>
            \o [i \in 1..Len(body) |-> [body[i] EXCEPT !.parent = 3]],
        StandardIndent)

ExceptionType == [form |-> "Name", id |-> "Exception"]

ValueErrorType == [form |-> "Name", id |-> "ValueError"]

ErrorCall == Node("Call", 0, [form |-> "Attribute", id |-> "error"])

PassStmt == Node("Pass", 0, NoTag)

\* try: ... / except: x = 1 / except Exception: pass
TwoHandlersTree ==
    Indented(
        << Node("Module", 0, NoTag), Node("Try", 1, NoTag),
           Node("ExceptHandler", 2, NoTag), Node("Assign", 3, NoTag),
           Node("ExceptHandler", 2, ExceptionType), Node("Pass", 5, NoTag) >>,
        StandardIndent)

\* try: ... followed by k handlers `except: pass`
RepeatedHandlersTree(k) ==
    Indented(
        << Node("Module", 0, NoTag), Node("Try", 1, NoTag) >>
            \o [ i \in 1..(2 * k) |->
                   IF i % 2 = 1 THEN Node("ExceptHandler", 2, NoTag)
                   ELSE Node("Pass", i + 1, NoTag) ],
        StandardIndent)

\* what a candidate file is to the analysis: skipped by an exclude pattern,
\* unreadable, not parseable, parsed into a tree whose traversal raises
\* after fail_at visits, or parsed and traversed
File(status, t, fail_at) == [status |-> status, tree |-> t, fail_at |-> fail_at]

EmptyModule == << Node("Module", 0, NoTag) >>

ParsedFiles(trees) == { File("ok", t, 0) : t \in trees }

FailingFiles ==
    { File("unreadable", EmptyModule, 0),
      File("syntax_error", EmptyModule, 0),
      File("traversal_error", HandlerTree(NoTag, <<PassStmt>>), 3) }

ExcludedFile == File("excluded", EmptyModule, 0)

FileTrees ==
    { EmptyModule,
      HandlerTree(NoTag, <<PassStmt>>),
      HandlerTree(ExceptionType, <<ErrorCall>>),
      HandlerTree(ValueErrorType, <<PassStmt>>),
      TwoHandlersTree }

\* the exit status the operating system keeps of sys.exit(n): its low 8 bits
ExitStatusModulus == 256

\* trees with enough issues to reach the width of the exit status
LargeFileTrees ==
    { EmptyModule,
      HandlerTree(ValueErrorType, <<PassStmt>>),
      RepeatedHandlersTree(ExitStatusModulus \div 2 - 1),
      RepeatedHandlersTree(ExitStatusModulus \div 2) }

-----------------------------------------------------------------------------
(* analyze_file, analyze_directory *)

Diagnostic(kind, path) == [kind |-> kind, file_path |-> path]

\* variant: a failed traversal returns what the visitor had collected
analyze_file_KeepPartial(path, file) ==
    CASE file.status = "unreadable" ->
             [issues |-> <<>>, diag |-> <<Diagnostic("Error analyzing", path)>>]
      [] file.status = "syntax_error" ->
             [issues |-> <<>>, diag |-> <<Diagnostic("Syntax error", path)>>]
      [] file.status = "traversal_error" ->
             [issues |-> TraverseSteps(NewVisitor, file.tree, path, file.fail_at).issues,
              diag |-> <<Diagnostic("Error analyzing", path)>>]
      [] OTHER ->
             [issues |-> Traverse(NewVisitor, file.tree, path).issues, diag |-> <<>>]

\* analyze_file: the issues returned and the diagnostics printed
analyze_file(path, file) ==
    CASE file.status = "unreadable" ->
             [issues |-> <<>>, diag |-> <<Diagnostic("Error analyzing", path)>>]
      [] file.status = "syntax_error" ->
             [issues |-> <<>>, diag |-> <<Diagnostic("Syntax error", path)>>]
      [] file.status = "traversal_error" ->
             LET v == TraverseSteps(NewVisitor, file.tree, path, file.fail_at)
             IN [issues |-> SubSeq(v.issues, 1, 0),
                 diag |-> <<Diagnostic("Error analyzing", path)>>]
      [] OTHER ->
             [issues |-> Traverse(NewVisitor, file.tree, path).issues, diag |-> <<>>]

-----------------------------------------------------------------------------
(* Aggregation and rendering *)

\* sorted(...) of a set of paths
RECURSIVE SortedSeq(_)
SortedSeq(S) ==
    IF S = {} THEN <<>>
    ELSE LET m == CHOOSE x \in S : \A y \in S : x <= y
         IN <<m>> \o SortedSeq(S \ {m})

\* sorted(file_issues, key=lambda x: x.line_number): stable, so an issue's
\* place is the number of issues of a smaller line, or of the same line and
\* ahead of it
sorted_by_line(seq) ==
    LET place == [ i \in DOMAIN seq |->
                     1 + Cardinality({ j \in DOMAIN seq :
                             \/ seq[j].line_number < seq[i].line_number
                             \/ seq[j].line_number = seq[i].line_number /\ j < i }) ]
    IN [ k \in DOMAIN seq |-> seq[CHOOSE i \in DOMAIN seq : place[i] = k] ]

\* by_file[file_path]: the issues of one file, in arrival order
by_file(iss, path) == LET Of(i) == i.file_path = path IN SelectSeq(iss, Of)

\* variant: the affected files in order of first appearance
get_files_with_issues_Unsorted(iss) ==
    LET First(i) == \A j \in 1..(i - 1) : iss[j].file_path # iss[i].file_path
        firsts == SelectSeq([i \in DOMAIN iss |-> i], First)
    IN [k \in DOMAIN firsts |-> iss[firsts[k]].file_path]

get_files_with_issues(iss) ==
    SortedSeq({ iss[i].file_path : i \in DOMAIN iss })

\* the lexicographic order of the issue type tokens
TypeOrder == <<"bare_except", "broad_exception", "empty_except", "pass_only">>

CountOf(iss, ty) == Cardinality({ i \in DOMAIN iss : iss[i].issue_type = ty })

\* variant: a type seen again overwrites its count instead of adding to it
issue_counts_Overwrite(iss) ==
    LET First(i) == \A j \in 1..(i - 1) : iss[j].issue_type # iss[i].issue_type
        firsts == SelectSeq([i \in DOMAIN iss |-> i], First)
    IN [k \in DOMAIN firsts |-> [issue_type |-> iss[firsts[k]].issue_type, count |-> 1]]

\* a dict issue_type -> count filled in one pass: its items in insertion order
issue_counts(iss) ==
    LET First(i) == \A j \in 1..(i - 1) : iss[j].issue_type # iss[i].issue_type
        firsts == SelectSeq([i \in DOMAIN iss |-> i], First)
    IN [k \in DOMAIN firsts |->
          [issue_type |-> iss[firsts[k]].issue_type,
           count |-> CountOf(iss, iss[firsts[k]].issue_type)]]

\* sorted(issue_counts.items())
sorted_issue_counts(iss) ==
    LET present(ty) == CountOf(iss, ty) > 0
        tys == SelectSeq(TypeOrder, present)
    IN [k \in DOMAIN tys |-> [issue_type |-> tys[k], count |-> CountOf(iss, tys[k])]]

\* the keys of sorted(by_file.items())
sorted_by_file(iss) == SortedSeq({ iss[i].file_path : i \in DOMAIN iss })

\* the lines of the report for the files paths[k..], in that order
RECURSIVE FileSections(_, _, _)
FileSections(iss, paths, k) ==
    IF k > Len(paths) THEN <<>>
    ELSE LET file_issues == sorted_by_line(by_file(iss, paths[k]))
         IN << [line |-> "file", file_path |-> paths[k]] >>
                \o [i \in DOMAIN file_issues |-> [line |-> "issue", issue |-> file_issues[i]]]
                \o FileSections(iss, paths, k + 1)

\* format_issue_report: the lines of the text report
format_issue_report(iss) ==
    IF iss = <<>> THEN << [line |-> "no issues"] >>
    ELSE LET counts == sorted_issue_counts(iss)
         IN << [line |-> "found", count |-> Len(iss)] >>
                \o FileSections(iss, sorted_by_file(iss), 1)
                \o [k \in DOMAIN counts |->
                      [line |-> "count", issue_type |-> counts[k].issue_type,
                       count |-> counts[k].count]]

\* the result object of --json
json_result(iss) ==
    [ line |-> "json",
      issues |-> iss,
      total_count |-> Len(iss),
      files_with_issues |-> get_files_with_issues(iss),
      files_count |-> Len(get_files_with_issues(iss)),
      summary |-> issue_counts(iss) ]

\* more affected files than this and --parallel-fix recommends parallel fixing
ParallelThreshold == 5

\* variant: the recommendation is chosen by the number of issues
parallel_fix_lines_ByIssueCount(iss) ==
    LET files_with_issues == get_files_with_issues(iss)
    IN << [line |-> "found", count |-> Len(iss), files |-> Len(files_with_issues)] >>
           \o [k \in DOMAIN files_with_issues |->
                 [line |-> "file", file_path |-> files_with_issues[k]]]
           \o << [line |-> "recommend",
                  fix |-> IF Len(iss) > ParallelThreshold THEN "parallel"
                          ELSE IF Len(iss) > 0 THEN "sequential"
                          ELSE "none"] >>

parallel_fix_lines(iss) ==
    LET files_with_issues == get_files_with_issues(iss)
    IN << [line |-> "found", count |-> Len(iss), files |-> Len(files_with_issues)] >>
           \o [k \in DOMAIN files_with_issues |->
                 [line |-> "file", file_path |-> files_with_issues[k]]]
           \o << [line |-> "recommend",
                  fix |-> IF Len(files_with_issues) > ParallelThreshold THEN "parallel"
                          ELSE IF Len(files_with_issues) > 0 THEN "sequential"
                          ELSE "none"] >>

\* variant: a line is printed for every issue
files_only_lines_PerIssue(iss) ==
    [k \in DOMAIN iss |-> [line |-> "file", file_path |-> iss[k].file_path]]

files_only_lines(iss) ==
    LET files_with_issues == get_files_with_issues(iss)
    IN [k \in DOMAIN files_with_issues |->
          [line |-> "file", file_path |-> files_with_issues[k]]]

\* the status the invoking process observes after sys.exit(n)
sys_exit(n) == n % ExitStatusModulus

\* the status of the path-existence check
PathNotFoundStatus == 1

-----------------------------------------------------------------------------
(* main *)

Flags == [files_only : BOOLEAN, parallel_fix : BOOLEAN, json : BOOLEAN]

ArgsOf(exists, is_file, flags) ==
    [ exists |-> exists, is_file |-> is_file, files_only |-> flags.files_only,
      parallel_fix |-> flags.parallel_fix, json |-> flags.json ]

\* the command lines and roots main may be started on, the files drawn from
\* `files`: a missing path, a single file, a directory of up to MaxFiles files
InitMain(files) ==
    /\ pc = "main"
    /\ \E flags \in Flags :
         \/ /\ args = ArgsOf(FALSE, FALSE, flags)
            /\ fs = <<>>
         \/ /\ args = ArgsOf(TRUE, TRUE, flags)
            /\ fs \in [1..1 -> files]
         \/ /\ args = ArgsOf(TRUE, FALSE, flags)
            /\ \E n \in 0..MaxFiles : fs \in [1..n -> files \cup {ExcludedFile}]
    /\ remaining = {}
    /\ issues = <<>>
    /\ analysed = <<>>
    /\ stderr = <<>>
    /\ stdout = <<>>
    /\ exit_status = -1
    /\ tree = <<>>
    /\ visitor = NewVisitor
    /\ snippet = NoSnippet

\* if not args.path.exists(): print the error, sys.exit(1)
CheckPath ==
    /\ pc = "main"
    /\ IF ~ args.exists
       THEN /\ stderr' = Append(stderr, Diagnostic("Path does not exist", 0))
            /\ exit_status' = sys_exit(PathNotFoundStatus)
            /\ pc' = "exited"
            /\ UNCHANGED remaining
       ELSE /\ pc' = "analyze"
            /\ remaining' = IF args.is_file THEN {} ELSE DOMAIN fs
            /\ UNCHANGED <<stderr, exit_status>>
    /\ UNCHANGED <<args, fs, issues, analysed, stdout, tree, visitor, snippet>>

\* issues = analyze_file(args.path)
AnalyzeSingleFile ==
    /\ pc = "analyze"
    /\ args.is_file
    /\ LET r == analyze_file(1, fs[1])
       IN /\ issues' = r.issues
          /\ stderr' = stderr \o r.diag
    /\ analysed' = Append(analysed, 1)
    /\ pc' = "output"
    /\ UNCHANGED <<args, fs, remaining, stdout, exit_status, tree, visitor, snippet>>

\* one turn of the loop of analyze_directory: rglob delivers any file not yet
\* delivered; an excluded one is skipped, another is analysed
AnalyzeDirectoryStep ==
    /\ pc = "analyze"
    /\ ~ args.is_file
    /\ \E py_file \in remaining :
         /\ remaining' = remaining \ {py_file}
         /\ IF fs[py_file].status = "excluded"
            THEN UNCHANGED <<issues, stderr, analysed>>
            ELSE LET r == analyze_file(py_file, fs[py_file])
                 IN /\ issues' = issues \o r.issues
                    /\ stderr' = stderr \o r.diag
                    /\ analysed' = Append(analysed, py_file)
    /\ UNCHANGED <<pc, args, fs, stdout, exit_status, tree, visitor, snippet>>

\* return all_issues
AnalyzeDirectoryReturn ==
    /\ pc = "analyze"
    /\ ~ args.is_file
    /\ remaining = {}
    /\ pc' = "output"
    /\ UNCHANGED <<args, fs, remaining, issues, analysed, stderr, stdout,
                   exit_status, tree, visitor, snippet>>

OutputFilesOnly ==
    /\ pc = "output"
    /\ args.files_only
    /\ stdout' = files_only_lines(issues)
    /\ exit_status' = sys_exit(Len(issues))
    /\ pc' = "exited"
    /\ UNCHANGED <<args, fs, remaining, issues, analysed, stderr, tree, visitor, snippet>>

OutputParallelFix ==
    /\ pc = "output"
    /\ ~ args.files_only
    /\ args.parallel_fix
    /\ stdout' = parallel_fix_lines(issues)
    /\ exit_status' = sys_exit(Len(issues))
    /\ pc' = "exited"
    /\ UNCHANGED <<args, fs, remaining, issues, analysed, stderr, tree, visitor, snippet>>

OutputJson ==
    /\ pc = "output"
    /\ ~ args.files_only
    /\ ~ args.parallel_fix
    /\ args.json
    /\ stdout' = << json_result(issues) >>
    /\ exit_status' = sys_exit(Len(issues))
    /\ pc' = "exited"
    /\ UNCHANGED <<args, fs, remaining, issues, analysed, stderr, tree, visitor, snippet>>

OutputReport ==
    /\ pc = "output"
    /\ ~ args.files_only
    /\ ~ args.parallel_fix
    /\ ~ args.json
    /\ stdout' = format_issue_report(issues)
    /\ exit_status' = sys_exit(Len(issues))
    /\ pc' = "exited"
    /\ UNCHANGED <<args, fs, remaining, issues, analysed, stderr, tree, visitor, snippet>>

Next ==
    \/ CheckPath
    \/ AnalyzeSingleFile
    \/ AnalyzeDirectoryStep
    \/ AnalyzeDirectoryReturn
    \/ OutputFilesOnly
    \/ OutputParallelFix
    \/ OutputJson
    \/ OutputReport

Init == InitMain(ParsedFiles(FileTrees) \cup FailingFiles)

Spec == Init /\ [][Next]_vars

\* main, in addition, with --parallel-fix over directories of up to
\* ParallelThreshold + 1 files, of which the first few hold a bare catch
\* (two issues each) and the others none
ManyFiles == ParallelThreshold + 1

InitMany ==
    \/ Init
    \/ /\ pc = "main"
       /\ \E json \in BOOLEAN :
            args = ArgsOf(TRUE, FALSE,
                          [files_only |-> FALSE, parallel_fix |-> TRUE, json |-> json])
       /\ \E n \in (MaxFiles + 1)..ManyFiles : \E affected \in 0..n :
            fs = [ p \in 1..n |->
                     IF p <= affected THEN File("ok", HandlerTree(NoTag, <<PassStmt>>), 0)
                     ELSE File("ok", EmptyModule, 0) ]
       /\ remaining = {}
       /\ issues = <<>>
       /\ analysed = <<>>
       /\ stderr = <<>>
       /\ stdout = <<>>
       /\ exit_status = -1
       /\ tree = <<>>
       /\ visitor = NewVisitor
       /\ snippet = NoSnippet

SpecMany == InitMany /\ [][Next]_vars

\* main over files large enough for the issue count to reach the width of
\* the exit status
InitLarge == InitMain(ParsedFiles(LargeFileTrees))

SpecLarge == InitLarge /\ [][Next]_vars

-----------------------------------------------------------------------------
(* Properties of the visitor (SpecVisitor) *)

Handlers(t) == { n \in 1..Len(t) : t[n].kind = "ExceptHandler" }

\* the handlers that lie inside the body of another handler
NestedHandlers(t) ==
    { n \in Handlers(t) : \E a \in Handlers(t) : a # n /\ IsAncestorOrSelf(t, a, n) }

Occurrences(seq, x) == Cardinality({ i \in DOMAIN seq : seq[i] = x })

IssuesAt(iss, n) == { i \in DOMAIN iss : iss[i].line_number = n }

TypesAt(iss, n) == { iss[i].issue_type : i \in IssuesAt(iss, n) }

IssueTypes == {"bare_except", "broad_exception", "empty_except", "pass_only"}

\* C4: every exception-handler node is visited exactly once whatever its
\* nesting depth (never twice while the traversal runs, once when it has
\* ended, and no other node reaches visit_ExceptHandler), and a visited
\* handler yields at most one issue of each issue type.
C4_EveryHandlerVisitedOnce ==
    /\ \A n \in 1..Len(tree) :
          Occurrences(visitor.visits, n) <= (IF n \in Handlers(tree) THEN 1 ELSE 0)
    /\ \A n \in 1..Len(tree) : \A ty \in IssueTypes :
          Cardinality({ i \in IssuesAt(visitor.issues, n) :
                          visitor.issues[i].issue_type = ty }) <= 1
    /\ pc = "visited" =>
          \A n \in Handlers(tree) : Occurrences(visitor.visits, n) = 1

\* a finished traversal of a tree with a handler inside a handler's body and
\* at least two handlers visited
C4_Witness ==
    /\ pc = "visited"
    /\ NestedHandlers(tree) # {}
    /\ Len(visitor.visits) >= 2

\* the four predicates as the design states them
BareCatch(t, n) == t[n].tag.form = "None"

RecoverySignalIn(t, n) ==
    \E j \in n..Len(t) :
        /\ IsAncestorOrSelf(t, n, j)
        /\ \/ t[j].kind = "Call" /\ t[j].tag = [form |-> "Attribute", id |-> "debug"]
           \/ t[j].kind = "Call" /\ t[j].tag = [form |-> "Attribute", id |-> "info"]
           \/ t[j].kind = "Call" /\ t[j].tag = [form |-> "Attribute", id |-> "warning"]
           \/ t[j].kind = "Call" /\ t[j].tag = [form |-> "Attribute", id |-> "error"]
           \/ t[j].kind = "Call" /\ t[j].tag = [form |-> "Attribute", id |-> "critical"]
           \/ t[j].kind = "Call" /\ t[j].tag = [form |-> "Attribute", id |-> "exception"]
           \/ t[j].kind = "Call" /\ t[j].tag = [form |-> "Name", id |-> "print"]
           \/ t[j].kind = "Raise"
           \/ t[j].kind = "Return"

CatchesBroad(t, n) ==
    t[n].tag \in { [form |-> "Name", id |-> "Exception"],
                   [form |-> "Name", id |-> "BaseException"] }

BroadSilentCatch(t, n) == CatchesBroad(t, n) /\ ~ RecoverySignalIn(t, n)

EmptyBody(t, n) == \A j \in 1..Len(t) : t[j].parent # n

PassOnlyBody(t, n) ==
    /\ Cardinality({ j \in 1..Len(t) : t[j].parent = n }) = 1
    /\ \A j \in 1..Len(t) : t[j].parent = n => t[j].kind = "Pass"

PredicatesHolding(t, n) ==
    { ty \in IssueTypes :
        \/ ty = "bare_except" /\ BareCatch(t, n)
        \/ ty = "broad_exception" /\ BroadSilentCatch(t, n)
        \/ ty = "empty_except" /\ EmptyBody(t, n)
        \/ ty = "pass_only" /\ PassOnlyBody(t, n) }

\* C5: when the traversal has ended, the set of issue types emitted for each
\* handler is exactly the set of predicates (bare catch, broad silent catch,
\* empty body, pass-only body) that hold for it.
C5_IssuesArePredicatesHolding ==
    pc = "visited" =>
        \A n \in Handlers(tree) : TypesAt(issues, n) = PredicatesHolding(tree, n)

\* a finished traversal with a handler for which a type predicate and a body
\* predicate both hold
C5_Witness ==
    /\ pc = "visited"
    /\ \E n \in Handlers(tree) : TypesAt(issues, n) = {"bare_except", "pass_only"}

\* C6: a handler declared as Exception or BaseException emits broad_exception
\* if and only if no recovery signal occurs anywhere in its subtree; a body
\* that is only a call of a method named error emits none, and the same
\* handler without that call emits it.
C6_BroadIffNoRecoverySignal ==
    pc = "visited" =>
        /\ \A n \in Handlers(tree) :
              CatchesBroad(tree, n) =>
                  ("broad_exception" \in TypesAt(issues, n) <=> ~ RecoverySignalIn(tree, n))
        /\ \A ty \in { h \in HandlerTypes : h.form = "Name" /\ h.id # "ValueError" } :
              tree = HandlerTree(ty, <<ErrorCall>>) =>
                  /\ "broad_exception" \notin TypesAt(issues, 3)
                  /\ "broad_exception" \in
                         TypesAt(Traverse(NewVisitor, HandlerTree(ty, <<>>), VisitorPath).issues, 3)

\* a finished traversal where a broad handler is not reported because of a
\* signal that is no statement of its own body but lies deeper
C6_Witness ==
    /\ pc = "visited"
    /\ \E n \in Handlers(tree) :
          /\ CatchesBroad(tree, n)
          /\ "broad_exception" \notin TypesAt(issues, n)
          /\ \A j \in 1..Len(tree) : tree[j].parent = n => tree[j].kind \in Blocks

\* C7: no handler position carries both an empty_except and a pass_only
\* issue, and `except Exception: pass` yields broad_exception and pass_only
\* and no empty_except.
C7_EmptyAndPassOnlyExclusive ==
    /\ \A i, j \in DOMAIN visitor.issues :
          ~ /\ visitor.issues[i].file_path = visitor.issues[j].file_path
            /\ visitor.issues[i].line_number = visitor.issues[j].line_number
            /\ visitor.issues[i].column = visitor.issues[j].column
            /\ visitor.issues[i].issue_type = "empty_except"
            /\ visitor.issues[j].issue_type = "pass_only"
    /\ (pc = "visited" /\ tree = HandlerTree(ExceptionType, <<PassStmt>>)) =>
          [i \in DOMAIN issues |-> issues[i].issue_type] = <<"broad_exception", "pass_only">>

\* the traversal of `except Exception: pass` has ended
C7_Witness ==
    /\ pc = "visited"
    /\ tree = HandlerTree(ExceptionType, <<PassStmt>>)
    /\ Len(issues) = 2

\* the trees that differ from t only outside the subtree of handler h: an
\* enclosing handler declares another type, or a statement without a body
\* that is not part of h is another statement
OuterVariants(t, h) ==
    { [t EXCEPT ![a].tag = ty] :
        a \in { a \in Handlers(t) : a # h /\ IsAncestorOrSelf(t, a, h) },
        ty \in HandlerTypes }
      \cup
    { [t EXCEPT ![j] = [l EXCEPT !.parent = t[j].parent]] :
        j \in { j \in 1..Len(t) : /\ t[j].kind \notin Blocks
                                   /\ ~ IsAncestorOrSelf(t, h, j) },
        l \in Leaves }

\* C8: the issues emitted for a handler nested in another handler's body do
\* not change when an enclosing handler's type or the other statements
\* around it change.
C8_InnerHandlerIndependent ==
    pc = "visited" =>
        \A h \in NestedHandlers(tree) :
            \A t2 \in OuterVariants(tree, h) :
                TypesAt(Traverse(NewVisitor, t2, VisitorPath).issues, h) = TypesAt(issues, h)

\* a finished traversal where a nested broad handler whose body is neither
\* empty nor a lone pass is reported although the enclosing handler's body
\* holds a recovery signal of its own
C8_Witness ==
    /\ pc = "visited"
    /\ \E h \in NestedHandlers(tree) :
          /\ TypesAt(issues, h) = {"broad_exception"}
          /\ \E j \in 1..Len(tree) :
                /\ ~ IsAncestorOrSelf(tree, h, j)
                /\ tree[j].kind = "Call"
                /\ tree[j].tag.id = "error"

-----------------------------------------------------------------------------
(* Properties of main (Spec, SpecLarge) *)

DirectoryRun == args.exists /\ ~ args.is_file

\* the complete issue list of the file at path p when it does not fail
CompleteIssues(p) ==
    IF fs[p].status = "ok" THEN Traverse(NewVisitor, fs[p].tree, p).issues ELSE <<>>

Failing(p) == fs[p].status \in {"unreadable", "syntax_error", "traversal_error"}

RECURSIVE ConcatIssues(_)
ConcatIssues(order) ==
    IF order = <<>> THEN <<>>
    ELSE CompleteIssues(Head(order)) \o ConcatIssues(Tail(order))

\* C1: in every output mode, when the root path exists the exit status is the
\* number of issues collected, and it is 0 exactly when there is no issue.
C1_ExitStatusIsIssueCount ==
    (pc = "exited" /\ args.exists) =>
        /\ exit_status = Len(issues)
        /\ exit_status = 0 <=> issues = <<>>

\* C2: with a missing root path main ends before any analyze_file call with
\* a non-zero status, and no run that reaches the analysis ends with that
\* status.
C2_MissingPathStatusDistinguished ==
    /\ (pc = "exited" /\ ~ args.exists) => (analysed = <<>> /\ exit_status # 0)
    /\ (pc = "exited" /\ args.exists) => exit_status # sys_exit(PathNotFoundStatus)

\* C3: in a directory run a failing file adds no issue and prints one
\* diagnostic, every file that is not excluded is analysed once whatever
\* failed before it, and the issue list is the concatenation, in processing
\* order, of the complete issue lists of the files that did not fail.
C3_FailuresIsolated ==
    (DirectoryRun /\ pc \in {"analyze", "output", "exited"}) =>
        /\ issues = ConcatIssues(analysed)
        /\ \A i, j \in DOMAIN analysed : analysed[i] = analysed[j] => i = j
        /\ \A p \in DOMAIN fs :
             Cardinality({ k \in DOMAIN stderr : stderr[k].file_path = p })
                = (IF Failing(p) /\ \E i \in DOMAIN analysed : analysed[i] = p THEN 1 ELSE 0)
        /\ pc # "analyze" =>
             { analysed[i] : i \in DOMAIN analysed }
                = { p \in DOMAIN fs : fs[p].status # "excluded" }

\* a directory run has ended in which the traversal of the first file failed
\* half-way and the second file delivered its issues
C3_Witness ==
    /\ pc = "exited"
    /\ DirectoryRun
    /\ Len(analysed) = 2
    /\ fs[analysed[1]].status = "traversal_error"
    /\ issues # <<>>

\* the orders in which the files of S may be processed
Orders(S) ==
    { o \in [1..Cardinality(S) -> S] : \A i, j \in DOMAIN o : o[i] = o[j] => i = j }

AffectedFiles(iss) == { iss[i].file_path : i \in DOMAIN iss }

\* what the aggregation exposes: the issues of each file ordered by line, the
\* count of each type, the total and the sorted list of affected files
Aggregate(iss) ==
    [ grouped |-> [ p \in AffectedFiles(iss) |-> sorted_by_line(by_file(iss, p)) ],
      counts  |-> { issue_counts(iss)[k] : k \in DOMAIN issue_counts(iss) },
      total   |-> Len(iss),
      files   |-> get_files_with_issues(iss) ]

\* C9: the aggregate of the issue list of a directory run is the aggregate of
\* the per-file issue lists concatenated in any other file order.
C9_AggregationOrderIndependent ==
    (DirectoryRun /\ pc \in {"output", "exited"}) =>
        \A o \in Orders({ analysed[i] : i \in DOMAIN analysed }) :
            Aggregate(ConcatIssues(o)) = Aggregate(issues)

\* a directory run in which the file of the larger path was delivered first
\* and both files have issues
C9_Witness ==
    /\ pc = "exited"
    /\ DirectoryRun
    /\ analysed = <<2, 1>>
    /\ AffectedFiles(issues) = {1, 2}

\* the issues a rendered form lists, in the order it lists them
RenderedIssues(out) ==
    IF args.json THEN out[1].issues
    ELSE LET IsIssue(l) == l.line = "issue"
             ls == SelectSeq(out, IsIssue)
         IN [k \in DOMAIN ls |-> ls[k].issue]

\* C10: the text report and the issues array of --json list the issues
\* sorted by file path and then by line.
C10_RenderedIssuesSorted ==
    (pc = "exited" /\ args.exists /\ ~ args.files_only /\ ~ args.parallel_fix) =>
        LET r == RenderedIssues(stdout)
        IN \A i, j \in DOMAIN r :
              i < j => \/ r[i].file_path < r[j].file_path
                       \/ /\ r[i].file_path = r[j].file_path
                          /\ r[i].line_number <= r[j].line_number

JsonMode == args.exists /\ ~ args.files_only /\ ~ args.parallel_fix /\ args.json

RECURSIVE SumCounts(_)
SumCounts(items) ==
    IF items = <<>> THEN 0 ELSE Head(items).count + SumCounts(Tail(items))

StrictlyAscending(seq) == \A i, j \in DOMAIN seq : i < j => seq[i] < seq[j]

\* C11: in the --json result no issue is dropped or duplicated: the issues
\* array is the list of the issues of the analysed files, total_count is its
\* length, the values of summary (one per issue type) sum to total_count,
\* files_count is the length of files_with_issues, and files_with_issues is
\* the sorted, duplicate-free set of the file paths that occur in an issue.
C11_JsonCountsConsistent ==
    (pc = "exited" /\ JsonMode) =>
        LET r == stdout[1]
        IN /\ Len(stdout) = 1
           /\ r.issues = ConcatIssues(analysed)
           /\ r.total_count = Len(r.issues)
           /\ SumCounts(r.summary) = r.total_count
           /\ \A i, j \in DOMAIN r.summary :
                r.summary[i].issue_type = r.summary[j].issue_type => i = j
           /\ \A k \in DOMAIN r.summary :
                r.summary[k].count =
                    Cardinality({ i \in DOMAIN r.issues :
                                    r.issues[i].issue_type = r.summary[k].issue_type })
           /\ r.files_count = Len(r.files_with_issues)
           /\ StrictlyAscending(r.files_with_issues)
           /\ { r.files_with_issues[k] : k \in DOMAIN r.files_with_issues }
                = { r.issues[i].file_path : i \in DOMAIN r.issues }

\* a --json run has ended with two affected files, one of them with several
\* issues of one type
C11_Witness ==
    /\ pc = "exited"
    /\ JsonMode
    /\ stdout[1].files_count = 2
    /\ stdout[1].total_count >= 3
    /\ \E k \in DOMAIN stdout[1].summary : stdout[1].summary[k].count >= 2

\* C12: with --files-only the standard output is one line per file that has
\* at least one issue, each such path once and in sorted order, and nothing
\* else; of two input files of which one alone has issues, one line is
\* printed.
C12_FilesOnlyOneLinePerFile ==
    (pc = "exited" /\ args.exists /\ args.files_only) =>
        /\ \A k \in DOMAIN stdout : DOMAIN stdout[k] = {"line", "file_path"}
        /\ \A k \in DOMAIN stdout : stdout[k].line = "file"
        /\ StrictlyAscending([k \in DOMAIN stdout |-> stdout[k].file_path])
        /\ { stdout[k].file_path : k \in DOMAIN stdout }
              = { p \in DOMAIN fs : /\ \E i \in DOMAIN analysed : analysed[i] = p
                                    /\ CompleteIssues(p) # <<>> }
        /\ \A p \in DOMAIN fs :
             (DOMAIN fs = {1, 2} /\ CompleteIssues(p) # <<>> /\ CompleteIssues(3 - p) = <<>>
                 /\ fs[3 - p].status # "excluded")
                 => stdout = << [line |-> "file", file_path |-> p] >>

\* a --files-only run over two files has ended: one clean, the other with a
\* bare catch that yields two issues, and one line was printed
C12_Witness ==
    /\ pc = "exited"
    /\ DirectoryRun
    /\ args.files_only
    /\ Len(analysed) = 2
    /\ fs[1] = File("ok", EmptyModule, 0)
    /\ fs[2] = File("ok", HandlerTree(NoTag, <<PassStmt>>), 0)
    /\ Len(issues) = 2
    /\ Len(stdout) = 1

ParallelFixMode == args.exists /\ ~ args.files_only /\ args.parallel_fix

\* C13: --parallel-fix prints exactly one recommendation, as its last line,
\* chosen by the number n of affected files and not by the number of issues:
\* parallel when n > 5, sequential when 0 < n <= 5, none when n = 0.
C13_RecommendationByFileCount ==
    (pc = "exited" /\ ParallelFixMode) =>
        LET n == Cardinality(AffectedFiles(issues))
            recs == { k \in DOMAIN stdout : stdout[k].line = "recommend" }
        IN /\ recs = { Len(stdout) }
           /\ stdout[Len(stdout)].fix =
                 (IF n > 5 THEN "parallel" ELSE IF n > 0 THEN "sequential" ELSE "none")

\* a --parallel-fix run over six affected files has ended with the parallel
\* recommendation
C13_Witness ==
    /\ pc = "exited"
    /\ ParallelFixMode
    /\ Cardinality(AffectedFiles(issues)) = 6
    /\ stdout[Len(stdout)] = [line |-> "recommend", fix |-> "parallel"]

\* the issue types reported for the handler at line n, in report order
TypeSeqAt(iss, n) ==
    LET at == SelectSeq(iss, LAMBDA i : i.line_number = n)
    IN [k \in DOMAIN at |-> at[k].issue_type]

AllowedTypeSeqs ==
    {<<>>}
      \cup { <<a>> : a \in IssueTypes }
      \cup { <<a, b>> : a \in {"bare_except", "broad_exception"},
                        b \in {"empty_except", "pass_only"} }

\* C15: one handler never gets both bare_except and broad_exception, and it
\* yields at most two issues: at most one of bare_except / broad_exception
\* followed by at most one of empty_except / pass_only, in that order.
C15_AtMostTwoIssuesInOrder ==
    \A n \in Handlers(tree) :
        /\ TypeSeqAt(visitor.issues, n) \in AllowedTypeSeqs
        /\ ~ ({"bare_except", "broad_exception"} \subseteq TypesAt(visitor.issues, n))

\* the traversal has ended with one handler reported as broad_exception and
\* then pass_only, and another as bare_except and then empty_except
C15_Witness ==
    /\ pc = "visited"
    /\ \E n \in Handlers(tree) : TypeSeqAt(issues, n) = <<"broad_exception", "pass_only">>
    /\ \E n \in Handlers(tree) : TypeSeqAt(issues, n) = <<"bare_except", "empty_except">>

\* str.split("\n")
RECURSIVE SplitLines(_, _)
SplitLines(s, current) ==
    IF s = <<>> THEN << current >>
    ELSE IF Head(s) = "\n" THEN << current >> \o SplitLines(Tail(s), <<>>)
    ELSE SplitLines(Tail(s), Append(current, Head(s)))

\* the number a label of blanks and decimal digits stands for
RECURSIVE NumberOf(_, _)
NumberOf(chars, acc) ==
    IF chars = <<>> THEN acc
    ELSE IF Head(chars) = " " THEN NumberOf(Tail(chars), acc)
    ELSE NumberOf(Tail(chars),
                  10 * acc + (CHOOSE d \in 0..9 : DigitChars[d + 1] = Head(chars)))

\* text is line without its trailing blanks
IsRightStripped(text, line) ==
    /\ Len(text) <= Len(line)
    /\ text = SubSeq(line, 1, Len(text))
    /\ \A k \in (Len(text) + 1)..Len(line) : line[k] \in Whitespace
    /\ text # <<>> => text[Len(text)] \notin Whitespace

\* C14: for N source lines and a handler at line L, 1 <= L <= N, the snippet
\* is exactly the lines max(1, L-2) .. min(N, L+2) in ascending order, each
\* labelled with its own 1-based number and holding that line's text, with
\* the ">>> " marker on line L only; no index outside source_lines is read.
C14_SnippetWindow ==
    LET N == Len(snippet.source_lines)
        L == snippet.line_num
        lo == IF L - 2 >= 1 THEN L - 2 ELSE 1
        hi == IF L + 2 <= N THEN L + 2 ELSE N
    IN /\ pc # "snippet_index_error"
       /\ (pc = "snippet_loop" /\ snippet.i < snippet.end) =>
             (snippet.i >= 0 /\ snippet.i < N)
       /\ pc = "snippet_returned" =>
             LET out == SplitLines(snippet.result, <<>>)
             IN /\ Len(out) = hi - lo + 1
                /\ \A k \in DOMAIN out :
                     LET number == lo + k - 1
                     IN /\ Len(out[k]) >= 9
                        /\ SubSeq(out[k], 1, 4) =
                             (IF number = L THEN <<">", ">", ">", " ">>
                              ELSE <<" ", " ", " ", " ">>)
                        /\ NumberOf(SubSeq(out[k], 5, 7), 0) = number
                        /\ SubSeq(out[k], 8, 9) = <<":", " ">>
                        /\ IsRightStripped(SubSeq(out[k], 10, Len(out[k])),
                                           snippet.source_lines[number])

\* a snippet was returned for line 4 of 7, a window clipped at neither end,
\* whose marked line had trailing blanks removed
C14_Witness ==
    /\ pc = "snippet_returned"
    /\ Len(snippet.source_lines) = 7
    /\ snippet.line_num = 4
    /\ snippet.source_lines[4] = <<" ", "y", " ", "U+00A0">>
    /\ Len(SplitLines(snippet.result, <<>>)) = 5
    /\ snippet.lines[3] = <<">", ">", ">", " ", " ", " ", "4", ":", " ", " ", "y">>

====
